---- MODULE Spec2Model ----
(***************************************************************************)
(* Window-function catalog of notebooks/window/window.py.                  *)
(*                                                                         *)
(* Every generator is a pure function (N, sym [, shape]) -> ndarray.  The  *)
(* model draws a call (family, N, sym, shape parameter) in Init and one    *)
(* action per generator applies it, recording the returned array, the      *)
(* Python exception raised (if any), and the locals the generator builds   *)
(* on its way: the reassigned length N, the boolean masks of the piecewise *)
(* assignments and the index of the item assignment.                       *)
(*                                                                         *)
(* float64 values are modelled in binary fixed point with Scale = 2^10     *)
(* units per 1.0, extended with NaN and +/-Inf, which numpy produces (with *)
(* a RuntimeWarning, never an exception) on 0/0 and x/0.  Python scalar    *)
(* arithmetic is kept apart from ndarray arithmetic: a Python float        *)
(* divided by the int 0 raises ZeroDivisionError, an ndarray divided by 0  *)
(* does not.  Zero is unsigned in the model; in the calls enumerated here  *)
(* a zero divisor is either the int 0 or +0.0.                             *)
(***************************************************************************)
EXTENDS Integers, Sequences, FiniteSets, TLC

\* ------------------------------------------------------------------------
\* Bounds of the enumeration
\* ------------------------------------------------------------------------

\* largest requested window length
MaxN == 6

\* the smallest requested length is -MaxNeg
MaxNeg == 2

\* ------------------------------------------------------------------------
\* float64, modelled as fixed point with NaN and Inf
\* ------------------------------------------------------------------------

\* fixed-point units per 1.0 (10 fraction bits)
Scale == 2^10

F(x) == [k |-> "fin", v |-> x]

NaN == [k |-> "nan", v |-> 0]

Inf(s) == [k |-> "inf", v |-> s]

\* an integer as a float
I(n) == F(n * Scale)

IAbs(x) == IF x < 0 THEN 0 - x ELSE x

ISgn(x) == IF x < 0 THEN 0 - 1 ELSE IF x > 0 THEN 1 ELSE 0

\* p / q rounded to nearest, ties away from zero (q # 0)
RDiv(p, q) == ISgn(p) * ISgn(q) * ((2 * IAbs(p) + IAbs(q)) \div (2 * IAbs(q)))

\* the decimal literal num/den of the source (den a power of ten)
Dec(num, den) ==
    LET shrink == IF den > 10^5 THEN den \div 10^5 ELSE 1
    IN  F(RDiv((num \div shrink) * Scale, den \div shrink))

One == I(1)

Zero == I(0)

Half == Dec(5, 10)

PI == Dec(314159265, 100000000)

IsNaN(a) == a.k = "nan"

IsInf(a) == a.k = "inf"

IsFin(a) == a.k = "fin"

\* sign of a value that is not NaN: -1, 0 or 1
Sgn(a) == IF a.k = "inf" THEN a.v ELSE ISgn(a.v)

Neg(a) == IF IsFin(a) THEN F(0 - a.v) ELSE IF IsInf(a) THEN Inf(0 - a.v) ELSE NaN

FAbs(a) == IF IsFin(a) THEN F(IAbs(a.v)) ELSE IF IsInf(a) THEN Inf(1) ELSE NaN

Add(a, b) ==
    IF IsNaN(a) \/ IsNaN(b) THEN NaN
    ELSE IF IsInf(a) /\ IsInf(b) THEN (IF a.v = b.v THEN a ELSE NaN)
    ELSE IF IsInf(a) THEN a
    ELSE IF IsInf(b) THEN b
    ELSE F(a.v + b.v)

Sub(a, b) == Add(a, Neg(b))

Mul(a, b) ==
    IF IsNaN(a) \/ IsNaN(b) THEN NaN
    ELSE IF IsInf(a) \/ IsInf(b)
         THEN (IF Sgn(a) * Sgn(b) = 0 THEN NaN ELSE Inf(Sgn(a) * Sgn(b)))
    ELSE F(RDiv(a.v * b.v, Scale))

\* ndarray true division: x/0 is +/-inf, 0/0 is nan, nothing is raised
Div(a, b) ==
    IF IsNaN(a) \/ IsNaN(b) THEN NaN
    ELSE IF IsInf(a) THEN (IF IsInf(b) THEN NaN
                           ELSE Inf(a.v * (IF Sgn(b) < 0 THEN 0 - 1 ELSE 1)))
    ELSE IF IsInf(b) THEN Zero
    ELSE IF b.v = 0 THEN (IF a.v = 0 THEN NaN ELSE Inf(ISgn(a.v)))
    ELSE F(RDiv(a.v * Scale, b.v))

Sq(a) == Mul(a, a)

Cube(a) == Mul(Mul(a, a), a)

\* comparisons: every comparison with NaN is False
Lt(a, b) ==
    IF IsNaN(a) \/ IsNaN(b) THEN FALSE
    ELSE IF IsInf(a) THEN (a.v < 0 /\ ~(IsInf(b) /\ b.v < 0))
    ELSE IF IsInf(b) THEN b.v > 0
    ELSE a.v < b.v

Ge(a, b) ==
    IF IsNaN(a) \/ IsNaN(b) THEN FALSE
    ELSE ~Lt(a, b)

\* cos on [0, pi/2], Taylor polynomial to x^8
CosPoly(x) ==
    LET x2 == RDiv(x * x, Scale)
        x4 == RDiv(x2 * x2, Scale)
        x6 == RDiv(x4 * x2, Scale)
        x8 == RDiv(x4 * x4, Scale)
    IN  Scale - RDiv(x2, 2) + RDiv(x4, 24) - RDiv(x6, 720) + RDiv(x8, 40320)

\* np.cos: NaN for NaN and +/-Inf, else cos after reduction to [0, pi/2]
Cos(a) ==
    IF ~IsFin(a) THEN NaN
    ELSE LET twopi == 2 * PI.v
             r == IAbs(a.v) % twopi
             s == IF r > PI.v THEN twopi - r ELSE r
         IN  IF 2 * s > PI.v THEN F(0 - CosPoly(PI.v - s)) ELSE F(CosPoly(s))

\* np.sin
Sin(a) ==
    IF ~IsFin(a) THEN NaN
    ELSE LET c == Cos(F(IAbs(a.v) - RDiv(PI.v, 2)))
         IN  IF a.v < 0 THEN Neg(c) ELSE c

\* exp on [-1/2, 1/2], Taylor polynomial to x^5
ExpPoly(x) ==
    LET x2 == RDiv(x * x, Scale)
        x3 == RDiv(x2 * x, Scale)
        x4 == RDiv(x2 * x2, Scale)
        x5 == RDiv(x4 * x, Scale)
    IN  Scale + x + RDiv(x2, 2) + RDiv(x3, 6) + RDiv(x4, 24) + RDiv(x5, 120)

RECURSIVE ExpFix(_)
\* exp of a finite fixed-point argument by halving and squaring
ExpFix(x) ==
    IF x < 0 - 16 * Scale THEN 0
    ELSE IF 2 * IAbs(x) <= Scale THEN ExpPoly(x)
    ELSE LET h == ExpFix(RDiv(x, 2)) IN RDiv(h * h, Scale)

\* np.exp
Exp(a) ==
    IF IsNaN(a) THEN NaN
    ELSE IF IsInf(a) THEN (IF a.v > 0 THEN a ELSE Zero)
    ELSE F(ExpFix(a.v))

\* ------------------------------------------------------------------------
\* What a call leaves behind
\* ------------------------------------------------------------------------

\* raised: the Python exception that ended the call, or "none"
\* w:      the returned ndarray, indexed 0..N-1 (<<>> when nothing returned)
\* N:      the local N when the call ended (after "N = N - 1 if sym else N")
\* inner, outer: the two boolean masks of parzen, as index sets
\* over:   the indices written by the assignment that follows the formula
\*         (the mask of tukey, the item N//2 of lanczos)
Ret(raised, w, N, inner, outer, over) ==
    [raised |-> raised, w |-> w, N |-> N,
     inner |-> inner, outer |-> outer, over |-> over]

Returns(w, N) == Ret("none", w, N, {}, {}, {})

Raises(e, N) == Ret(e, <<>>, N, {}, {}, {})

\* np.arange(N): 0..N-1, empty for N <= 0
arange(N) == 0 .. (N - 1)

\* k * np.pi * n / N, the phase of the cosine-sum windows
Phase(k, n, N) == Div(Mul(Mul(I(k), PI), I(n)), I(N))

\* ------------------------------------------------------------------------
\* Non-parametric windows
\* ------------------------------------------------------------------------

\* np.ones(N): a negative dimension raises ValueError
boxcar(N, sym) ==
    IF N < 0 THEN Raises("ValueError", I(N))
    ELSE Returns([n \in arange(N) |-> One], I(N))

\* (2.0 / N) is Python scalar division: the int 0 raises ZeroDivisionError
bartlett(N, sym) ==
    LET N1 == IF sym THEN N - 1 ELSE N
    IN  IF N1 = 0 THEN Raises("ZeroDivisionError", I(N1))
        ELSE Returns([n \in arange(N) |->
                 Mul(Div(I(2), I(N1)),
                     Sub(Div(I(N1), I(2)),
                         FAbs(Sub(I(n), Div(I(N1), I(2))))))], I(N1))

barthann(N, sym) ==
    LET N1 == IF sym THEN N - 1 ELSE N
    IN  Returns([n \in arange(N) |->
            Sub(Sub(Dec(62, 100),
                    Mul(Dec(48, 100), FAbs(Sub(Div(I(n), I(N1)), Half)))),
                Mul(Dec(38, 100), Cos(Phase(2, n, N1))))], I(N1))

\* n = 2 * n / (N-sym) - 1, the map of index n into [-1, 1]
parzen_t(n, N, sym) ==
    Sub(Div(Mul(I(2), I(n)), I(N - (IF sym THEN 1 ELSE 0))), One)

\* parzen with the outer mask written abs(n) > 1/2
parzen_strict(N, sym) ==
    IF N < 0 THEN Raises("ValueError", I(N))
    ELSE LET t(n) == parzen_t(n, N, sym)
             inner == {n \in arange(N) : Lt(FAbs(t(n)), Half)}
             outer == {n \in arange(N) : Lt(Half, FAbs(t(n)))}
         IN  Ret("none",
                 [n \in arange(N) |->
                     IF n \in outer
                     THEN Mul(I(2), Cube(Sub(One, FAbs(t(n)))))
                     ELSE IF n \in inner
                     THEN Add(Sub(One, Mul(I(6), Sq(t(n)))),
                              Mul(I(6), Cube(FAbs(t(n)))))
                     ELSE Zero],
                 I(N), inner, outer, {})

\* np.zeros(N) raises ValueError for a negative N; the inner mask is
\* assigned first, the outer mask second
parzen(N, sym) ==
    IF N < 0 THEN Raises("ValueError", I(N))
    ELSE LET t(n) == parzen_t(n, N, sym)
             inner == {n \in arange(N) : Lt(FAbs(t(n)), Half)}
             outer == {n \in arange(N) : Ge(FAbs(t(n)), Half)}
         IN  Ret("none",
                 [n \in arange(N) |->
                     IF n \in outer
                     THEN Mul(I(2), Cube(Sub(One, FAbs(t(n)))))
                     ELSE IF n \in inner
                     THEN Add(Sub(One, Mul(I(6), Sq(t(n)))),
                              Mul(I(6), Cube(FAbs(t(n)))))
                     ELSE Zero],
                 I(N), inner, outer, {})

welch(N, sym) ==
    LET s == IF sym THEN 1 ELSE 0
    IN  Returns([n \in arange(N) |->
            Sub(One, Sq(Div(Sub(I(n), Div(I(N - 1 - s), I(2))),
                            Div(I(N + 1 - s), I(2)))))], I(N))

\* cosine with the length written N + sym
cosine_symflip(N, sym) ==
    LET N1 == N + (IF sym THEN 1 ELSE 0)
    IN  Returns([n \in arange(N) |->
            Sin(Div(Mul(PI, Add(I(n), Half)), I(N1)))], I(N1))

cosine(N, sym) ==
    LET N1 == N + (IF sym THEN 0 ELSE 1)
    IN  Returns([n \in arange(N) |->
            Sin(Div(Mul(PI, Add(I(n), Half)), I(N1)))], I(N1))

bohman(N, sym) ==
    LET N1 == Div(I(IF sym THEN N - 1 ELSE N), I(2))
        x(n) == FAbs(Sub(Div(I(n), N1), One))
    IN  Returns([n \in arange(N) |->
            Add(Mul(Sub(One, x(n)), Cos(Mul(PI, x(n)))),
                Mul(Div(One, PI), Sin(Mul(PI, x(n)))))], N1)

\* w = np.pi * (2 * n / N - 1)
lanczos_arg(n, N) == Mul(PI, Sub(Div(Mul(I(2), I(n)), I(N)), One))

\* np.sin(w) / (w + 1e-12): 1e-12 is below the resolution of the model
\* except at w = 0, where the quotient is 0 / 1e-12 = 0
lanczos_sinc(n, N) ==
    LET a == lanczos_arg(n, N)
    IN  IF IsFin(a) /\ a.v = 0 THEN Zero ELSE Div(Sin(a), a)

\* lanczos without the item assignment w[N//2] = 1
lanczos_unguarded(N, sym) ==
    LET N1 == IF sym THEN N - 1 ELSE N
    IN  Ret("none", [n \in arange(N) |-> lanczos_sinc(n, N1)], I(N1), {}, {}, {})

\* w[N//2] = 1 raises IndexError when N//2 is not an index of w
lanczos(N, sym) ==
    LET N1 == IF sym THEN N - 1 ELSE N
        L == Cardinality(arange(N))
        i == N1 \div 2
        j == IF i < 0 THEN i + L ELSE i
    IN  IF j \notin arange(N) THEN Raises("IndexError", I(N1))
        ELSE Ret("none",
                 [n \in arange(N) |-> IF n = j THEN One ELSE lanczos_sinc(n, N1)],
                 I(N1), {}, {}, {j})

\* hann with N left as passed
hann_unresolved(N, sym) ==
    Returns([n \in arange(N) |->
        Sub(Dec(50, 100), Mul(Dec(50, 100), Cos(Phase(2, n, N))))], I(N))

hann(N, sym) ==
    LET N1 == IF sym THEN N - 1 ELSE N
    IN  Returns([n \in arange(N) |->
            Sub(Dec(50, 100), Mul(Dec(50, 100), Cos(Phase(2, n, N1))))], I(N1))

hamming(N, sym) ==
    LET N1 == IF sym THEN N - 1 ELSE N
    IN  Returns([n \in arange(N) |->
            Sub(Dec(54, 100), Mul(Dec(46, 100), Cos(Phase(2, n, N1))))], I(N1))

blackman(N, sym) ==
    LET N1 == IF sym THEN N - 1 ELSE N
    IN  Returns([n \in arange(N) |->
            Add(Sub(Dec(42, 100), Mul(Dec(50, 100), Cos(Phase(2, n, N1)))),
                Mul(Dec(8, 100), Cos(Phase(4, n, N1))))], I(N1))

blackmanharris(N, sym) ==
    LET N1 == IF sym THEN N - 1 ELSE N
    IN  Returns([n \in arange(N) |->
            Sub(Add(Sub(Dec(35875, 100000),
                        Mul(Dec(48829, 100000), Cos(Phase(2, n, N1)))),
                    Mul(Dec(14128, 100000), Cos(Phase(4, n, N1)))),
                Mul(Dec(1168, 100000), Cos(Phase(6, n, N1))))], I(N1))

blackmannuttall(N, sym) ==
    LET N1 == IF sym THEN N - 1 ELSE N
    IN  Returns([n \in arange(N) |->
            Sub(Add(Sub(Dec(3635819, 10000000),
                        Mul(Dec(4891775, 10000000), Cos(Phase(2, n, N1)))),
                    Mul(Dec(1365995, 10000000), Cos(Phase(4, n, N1)))),
                Mul(Dec(106411, 10000000), Cos(Phase(6, n, N1))))], I(N1))

\* N = N - sym, with sym a bool
kaiserbessel(N, sym) ==
    LET N1 == N - (IF sym THEN 1 ELSE 0)
    IN  Returns([n \in arange(N) |->
            Sub(Add(Sub(Dec(402, 1000),
                        Mul(Dec(498, 1000), Cos(Phase(2, n, N1)))),
                    Mul(Dec(98, 1000), Cos(Phase(4, n, N1)))),
                Mul(Dec(1, 1000), Cos(Phase(6, n, N1))))], I(N1))

flattop(N, sym) ==
    LET N1 == IF sym THEN N - 1 ELSE N
    IN  Returns([n \in arange(N) |->
            Add(Sub(Add(Sub(Dec(21557895, 100000000),
                            Mul(Dec(416631580, 1000000000), Cos(Phase(2, n, N1)))),
                        Mul(Dec(277263158, 1000000000), Cos(Phase(4, n, N1)))),
                    Mul(Dec(83578947, 1000000000), Cos(Phase(6, n, N1)))),
                Mul(Dec(6947368, 1000000000), Cos(Phase(8, n, N1))))], I(N1))

\* ------------------------------------------------------------------------
\* Parametric windows
\* ------------------------------------------------------------------------

exponential(N, sym, alpha) ==
    LET N1 == Div(I(IF sym THEN N - 1 ELSE N), I(2))
    IN  Returns([n \in arange(N) |->
            Exp(Div(Mul(Neg(alpha), FAbs(Sub(I(n), N1))), N1))], N1)

gaussian(N, sym, std) ==
    LET N1 == Div(I(IF sym THEN N - 1 ELSE N), I(2))
    IN  Returns([n \in arange(N) |->
            Exp(Mul(Neg(Half), Sq(Div(Sub(I(n), N1), Mul(std, N1)))))], N1)

hannpoisson(N, sym, alpha) ==
    LET N1 == Div(I(IF sym THEN N - 1 ELSE N), I(2))
    IN  Returns([n \in arange(N) |->
            Mul(Mul(Half, Sub(One, Cos(Div(Mul(PI, I(n)), N1)))),
                Exp(Div(Mul(Neg(alpha), FAbs(Sub(I(n), N1))), N1)))], N1)

\* 0.5 * (1 + cos(pi * (abs(n - N) - alpha * N) / ((1 - alpha) * N)))
tukey_taper(n, N1, alpha) ==
    Mul(Half, Add(One, Cos(Div(Mul(PI, Sub(FAbs(Sub(I(n), N1)), Mul(alpha, N1))),
                               Mul(Sub(One, alpha), N1)))))

\* the mask abs(n - N) < alpha * N
tukey_flat(N, N1, alpha) ==
    {n \in arange(N) : Lt(FAbs(Sub(I(n), N1)), Mul(alpha, N1))}

tukey(N, sym, alpha) ==
    LET N1 == Div(I(IF sym THEN N - 1 ELSE N), I(2))
        flat == tukey_flat(N, N1, alpha)
    IN  Ret("none",
            [n \in arange(N) |->
                IF n \in flat THEN One ELSE tukey_taper(n, N1, alpha)],
            N1, {}, {}, flat)

\* ------------------------------------------------------------------------
\* The calls
\* ------------------------------------------------------------------------

\* __all__
Families ==
    {"boxcar", "bartlett", "barthann", "parzen", "welch", "cosine", "bohman",
     "lanczos", "hann", "hamming", "blackman", "blackmanharris",
     "blackmannuttall", "kaiserbessel", "flattop", "exponential", "gaussian",
     "hannpoisson", "tukey"}

\* the families that take alpha
AlphaFamilies == {"exponential", "hannpoisson", "tukey"}

\* the default alpha of exponential and hannpoisson
DefaultAlpha == One

\* the default std of gaussian
DefaultStd == Dec(25, 100)

\* the alpha values enumerated: 0, the tukey default 0.5, 1 and 2
Alphas == {Zero, Half, One, I(2)}

\* the std values enumerated: 0, the default 0.25 and 1
Stds == {Zero, DefaultStd, One}

Lengths == (0 - MaxNeg) .. MaxN

NoRet == Ret("none", <<>>, Zero, {}, {}, {})

VARIABLES family, argN, argSym, argAlpha, argStd, pc, ret

vars == <<family, argN, argSym, argAlpha, argStd, pc, ret>>

\* a call about to be made: sym is always passed as a bool
Init ==
    /\ family \in Families
    /\ argN \in Lengths
    /\ argSym \in BOOLEAN
    /\ argAlpha \in (IF family \in AlphaFamilies THEN Alphas ELSE {DefaultAlpha})
    /\ argStd \in (IF family = "gaussian" THEN Stds ELSE {DefaultStd})
    /\ pc = "call"
    /\ ret = NoRet

Done(r) ==
    /\ pc = "call"
    /\ pc' = "done"
    /\ ret' = r
    /\ UNCHANGED <<family, argN, argSym, argAlpha, argStd>>

Call_boxcar == family = "boxcar" /\ Done(boxcar(argN, argSym))

Call_bartlett == family = "bartlett" /\ Done(bartlett(argN, argSym))

Call_barthann == family = "barthann" /\ Done(barthann(argN, argSym))

Call_parzen == family = "parzen" /\ Done(parzen(argN, argSym))

Call_welch == family = "welch" /\ Done(welch(argN, argSym))

Call_cosine == family = "cosine" /\ Done(cosine(argN, argSym))

Call_bohman == family = "bohman" /\ Done(bohman(argN, argSym))

Call_lanczos == family = "lanczos" /\ Done(lanczos(argN, argSym))

Call_hann == family = "hann" /\ Done(hann(argN, argSym))

Call_hamming == family = "hamming" /\ Done(hamming(argN, argSym))

Call_blackman == family = "blackman" /\ Done(blackman(argN, argSym))

Call_blackmanharris == family = "blackmanharris" /\ Done(blackmanharris(argN, argSym))

Call_blackmannuttall == family = "blackmannuttall" /\ Done(blackmannuttall(argN, argSym))

Call_kaiserbessel == family = "kaiserbessel" /\ Done(kaiserbessel(argN, argSym))

Call_flattop == family = "flattop" /\ Done(flattop(argN, argSym))

Call_exponential == family = "exponential" /\ Done(exponential(argN, argSym, argAlpha))

Call_gaussian == family = "gaussian" /\ Done(gaussian(argN, argSym, argStd))

Call_hannpoisson == family = "hannpoisson" /\ Done(hannpoisson(argN, argSym, argAlpha))

Call_tukey == family = "tukey" /\ Done(tukey(argN, argSym, argAlpha))

Next ==
    \/ Call_boxcar
    \/ Call_bartlett
    \/ Call_barthann
    \/ Call_parzen
    \/ Call_welch
    \/ Call_cosine
    \/ Call_bohman
    \/ Call_lanczos
    \/ Call_hann
    \/ Call_hamming
    \/ Call_blackman
    \/ Call_blackmanharris
    \/ Call_blackmannuttall
    \/ Call_kaiserbessel
    \/ Call_flattop
    \/ Call_exponential
    \/ Call_gaussian
    \/ Call_hannpoisson
    \/ Call_tukey

Spec == Init /\ [][Next]_vars

\* the same call as an operator, for claims that relate two calls
generate(f, N, sym, alpha, std) ==
    CASE f = "boxcar" -> boxcar(N, sym)
      [] f = "bartlett" -> bartlett(N, sym)
      [] f = "barthann" -> barthann(N, sym)
      [] f = "parzen" -> parzen(N, sym)
      [] f = "welch" -> welch(N, sym)
      [] f = "cosine" -> cosine(N, sym)
      [] f = "bohman" -> bohman(N, sym)
      [] f = "lanczos" -> lanczos(N, sym)
      [] f = "hann" -> hann(N, sym)
      [] f = "hamming" -> hamming(N, sym)
      [] f = "blackman" -> blackman(N, sym)
      [] f = "blackmanharris" -> blackmanharris(N, sym)
      [] f = "blackmannuttall" -> blackmannuttall(N, sym)
      [] f = "kaiserbessel" -> kaiserbessel(N, sym)
      [] f = "flattop" -> flattop(N, sym)
      [] f = "exponential" -> exponential(N, sym, alpha)
      [] f = "gaussian" -> gaussian(N, sym, std)
      [] f = "hannpoisson" -> hannpoisson(N, sym, alpha)
      [] f = "tukey" -> tukey(N, sym, alpha)

\* ------------------------------------------------------------------------
\* Properties
\* ------------------------------------------------------------------------

\* comparison tolerance of the model: 4 fixed-point units
Tol == Scale \div 2^8

\* equal within tolerance; NaN matches NaN (as numpy.testing.assert_allclose)
Close(a, b) ==
    \/ IsNaN(a) /\ IsNaN(b)
    \/ IsInf(a) /\ IsInf(b) /\ a.v = b.v
    \/ IsFin(a) /\ IsFin(b) /\ IAbs(a.v - b.v) <= Tol

\* the families whose length is resolved by "N = N - 1 if sym else N"
\* (kaiserbessel: "N = N - sym")
AdditiveFamilies ==
    {"bartlett", "barthann", "lanczos", "hann", "hamming", "blackman",
     "blackmanharris", "blackmannuttall", "kaiserbessel", "flattop"}

\* C1: for every generator, every N <= 0 and either symmetry flag, the call
\* returns the empty sequence and raises nothing.
C1_EmptyForNonPositiveN ==
    (pc = "done" /\ argN <= 0) => (ret.raised = "none" /\ ret.w = <<>>)

\* C2: for every generator, every N >= 1, a boolean symmetry flag and any
\* shape parameter, the call never raises and returns exactly N samples
\* indexed 0..N-1.
C2_NeverRaisesLengthN ==
    (pc = "done" /\ argN >= 1) =>
        (ret.raised = "none" /\ DOMAIN ret.w = 0 .. (argN - 1))

\* C3: in symmetric mode with N >= 2 the window is a palindrome:
\* w[n] == w[N-1-n] for all n, within tolerance.
C3_SymmetricPalindrome ==
    (pc = "done" /\ argSym /\ argN >= 2) =>
        /\ ret.raised = "none"
        /\ \A n \in 0 .. (argN - 1) : Close(ret.w[n], ret.w[argN - 1 - n])

\* C4: for every family and N >= 1, generate(N, sym=False) equals the first
\* N samples of generate(N+1, sym=True) with the same shape parameters.
C4_PeriodicIsPrefixOfSymmetric ==
    (pc = "done" /\ ~argSym /\ argN >= 1) =>
        LET s == generate(family, argN + 1, TRUE, argAlpha, argStd)
        IN  /\ ret.raised = "none"
            /\ s.raised = "none"
            /\ DOMAIN ret.w = 0 .. (argN - 1)
            /\ \A n \in 0 .. (argN - 1) : Close(ret.w[n], s.w[n])

\* C4 witness: the periodic cosine window of length 3, which differs from
\* the symmetric one of length 3 and is the prefix of the symmetric one of
\* length 4.
C4_Witness ==
    /\ pc = "done" /\ family = "cosine" /\ ~argSym /\ argN = 3
    /\ ret.raised = "none"
    /\ ret.w[0] # cosine(3, TRUE).w[0]
    /\ \A n \in 0 .. 2 : ret.w[n] = cosine(4, TRUE).w[n]

\* C5: tukey(N, sym=False, alpha=0) == [1.0]*N for every N >= 1.
C5_TukeyAlpha0IsBoxcar ==
    (pc = "done" /\ family = "tukey" /\ ~argSym /\ argAlpha = Zero /\ argN >= 1) =>
        /\ ret.raised = "none"
        /\ \A n \in 0 .. (argN - 1) : Close(ret.w[n], One)

\* C6: for N >= 2 and either symmetry flag, tukey(N, sym, alpha=1) has an
\* empty flat-region mask and every sample equals the Hann value for the
\* same N and sym.
C6_TukeyAlpha1IsHann ==
    (pc = "done" /\ family = "tukey" /\ argAlpha = One /\ argN >= 2) =>
        /\ ret.raised = "none"
        /\ ret.over = {}
        /\ \A n \in 0 .. (argN - 1) : Close(ret.w[n], hann(argN, argSym).w[n])

\* C7: for every N >= 1, lanczos(N, sym=False)[N//2] is exactly 1.0.
C7_LanczosCenterTap ==
    (pc = "done" /\ family = "lanczos" /\ ~argSym /\ argN >= 1) =>
        /\ ret.raised = "none"
        /\ (argN \div 2) \in DOMAIN ret.w
        /\ ret.w[argN \div 2] = One

\* C7 witness: lanczos(2, sym=False), whose sinc quotient at index 1 is
\* 0 / 1e-12 = 0 and whose returned sample at index 1 is 1.0.
C7_Witness ==
    /\ pc = "done" /\ family = "lanczos" /\ ~argSym /\ argN = 2
    /\ lanczos_sinc(1, 2) = Zero
    /\ ret.w[1] = One

\* C8 as stated: for every N >= 1 and either symmetry flag, every index is
\* assigned by exactly one of the two parzen branches, the case
\* N - sym == 0 included.
C8_ParzenExactlyOneBranch ==
    (pc = "done" /\ family = "parzen" /\ argN >= 1) =>
        /\ ret.raised = "none"
        /\ \A n \in 0 .. (argN - 1) : (n \in ret.inner) # (n \in ret.outer)

\* C8 amended: for N >= 1 with N - sym # 0 every index is assigned by
\* exactly one of the two branches; for N - sym == 0 (N = 1, symmetric)
\* both masks are empty and the sample keeps its initial 0.
C8_ParzenExactlyOneBranchUnlessNaN ==
    (pc = "done" /\ family = "parzen" /\ argN >= 1) =>
        /\ ret.raised = "none"
        /\ IF argN = 1 /\ argSym
           THEN ret.inner = {} /\ ret.outer = {} /\ ret.w[0] = Zero
           ELSE \A n \in 0 .. (argN - 1) : (n \in ret.inner) # (n \in ret.outer)

\* C8 witness: parzen(4, sym=False), whose sample 1 lies exactly at
\* |t| = 1/2 and is assigned by the outer branch only.
C8_Witness ==
    /\ pc = "done" /\ family = "parzen" /\ ~argSym /\ argN = 4
    /\ FAbs(parzen_t(1, 4, FALSE)) = Half
    /\ 1 \in ret.outer /\ 1 \notin ret.inner
    /\ ret.w[1] = Dec(25, 100)

\* C9 as stated: the additive length N - 1 if sym else N is 0 for N == 1
\* with symmetric=False.
C9_ZeroDivisorPeriodicN1 ==
    (pc = "done" /\ family \in AdditiveFamilies /\ argN = 1 /\ ~argSym) =>
        ret.N = Zero

\* C9 amended: for N >= 1 the additive length is 0 exactly for N == 1 with
\* symmetric=True, where the additive-form generators divide by zero
\* (bartlett raises ZeroDivisionError, lanczos overwrites the NaN quotient,
\* the others return NaN); for N == 1 with symmetric=False it is 1 and the
\* sample is finite.
C9_ZeroDivisorSymmetricN1 ==
    (pc = "done" /\ family \in AdditiveFamilies /\ argN >= 1) =>
        /\ (ret.N = Zero) <=> (argN = 1 /\ argSym)
        /\ (argN = 1 /\ argSym) =>
              CASE family = "bartlett" -> ret.raised = "ZeroDivisionError"
                [] family = "lanczos" -> IsNaN(lanczos_sinc(0, 0)) /\ ret.w[0] = One
                [] OTHER -> ret.raised = "none" /\ IsNaN(ret.w[0])
        /\ (argN = 1 /\ ~argSym) =>
              ret.N = One /\ ret.raised = "none" /\ IsFin(ret.w[0])

\* C9 witness: hann(1, sym=True), resolved length 0, returns [nan].
C9_Witness ==
    /\ pc = "done" /\ family = "hann" /\ argN = 1 /\ argSym
    /\ ret.N = Zero
    /\ IsNaN(ret.w[0])

\* C10: for every N >= 1 and either symmetry flag, the index lanczos forces
\* to 1.0 is one where the sinc argument is exactly zero (2n == effective),
\* and every sample whose sinc argument is non-zero keeps its formula value.
C10_LanczosGuardsOnlySingularity ==
    (pc = "done" /\ family = "lanczos" /\ argN >= 1) =>
        /\ ret.raised = "none"
        /\ \A n \in ret.over : I(2 * n) = ret.N
        /\ \A n \in 0 .. (argN - 1) :
              I(2 * n) # ret.N =>
                  ret.w[n] = lanczos_sinc(n, IF argSym THEN argN - 1 ELSE argN)

====
